---- MODULE Spec2Model ----
(***************************************************************************)
(* Composite/Component tree of Linker.cpp: Component (parent_ pointer,     *)
(* empty Add/Remove), Leaf, Composite (std::list<Component*> children_),   *)
(* the client routines ClientCode/ClientCode2 and main.                    *)
(* Singleton.cpp: Singleton::GetInstance called from two threads.          *)
(* chainOfResponsibilities.cpp: the handlers, SetNext and Handle.          *)
(* Lightweight.cpp: FlyweightFactory and its map of flyweights.            *)
(* Builder.cpp: ConcreteBuilder1 and the products it hands out.            *)
(* Observer.cpp: Subject, its list of observers, and Observer.             *)
(* Mediator.cpp: Component1, Component2 and ConcreteMediator.              *)
(* Team.cpp: Invoker and the commands it is given.                         *)
(* Each program has its own variables and its own specification; a         *)
(* specification leaves the variables of the other programs alone.         *)
(***************************************************************************)
EXTENDS Integers, Sequences, FiniteSets, TLC

(* The objects main() allocates, by the name of the pointer that holds them. *)
Composites == {"tree", "branch1", "branch2"}
Leaves == {"simple", "leaf_1", "leaf_2", "leaf_3"}
Names == Composites \cup Leaves

(* Pointer values: an object, nullptr, or an indeterminate non-null value. *)
None == "nullptr"
Wild == "indeterminate"

(* Component has no constructor and parent_ no initializer: after `new Leaf` *)
(* or `new Composite` parent_ holds whatever the allocation held, either    *)
(* zero or a non-null bit pattern the program never stored.                 *)
Garbage == {None, Wild}

(* The objects the free-running client works with. *)
Pool == {"tree", "branch1", "leaf_1"}

(* Bound on the total number of child entries the free-running client builds. *)
MaxEntries == 3

(* Bound on the length of the initializer list given to FlyweightFactory. *)
MaxInit == 2

(* Bounds on the products ConcreteBuilder1 allocates and on the parts it   *)
(* produces in all.                                                        *)
MaxProducts == 3
MaxParts == 3

(* Bound on the number of GetInstance calls of the single-threaded client. *)
MaxCalls == 6

(* Bound on the length of Subject::list_observer_. *)
MaxAttached == 3

(* Call depth available to the recursion of Operation before the stack is   *)
(* exhausted; larger than any acyclic structure over Names can need.        *)
MaxDepth == 8

VARIABLES
  objs,      \* the objects that have been allocated
  parent,    \* Component::parent_ of every object
  children,  \* Composite::children_ of every composite
  last,      \* the call the client made last, with what it returned
  pc,        \* index of the next statement of main (0: no main running)
  dtor       \* how many times each object's destructor has run

(* Singleton.cpp *)
VARIABLES
  singleton_,  \* Singleton::singleton_: 0 (nullptr) or the index of an object in heap
  heap,        \* value_ of every Singleton object constructed, in order
  thr,         \* ThreadFoo and ThreadBar: position, locals, value printed
  calls        \* the GetInstance calls a single-threaded client has made, in order

(* chainOfResponsibilities.cpp *)
VARIABLES
  next_handler_,  \* AbstractHandler::next_handler_ of every handler
  hlast           \* the call made last on a handler, with what it returned

(* Lightweight.cpp *)
VARIABLES
  flyweights_,  \* FlyweightFactory::flyweights_, the entries it holds
  asked,        \* the keys the constructor and GetFlyweight have been given
  flast         \* the GetFlyweight call made last

(* Builder.cpp *)
VARIABLES
  parts_,   \* Product1::parts_ of every product allocated, by allocation order
  product,  \* ConcreteBuilder1::product, the index of a product (0: no builder)
  made,     \* the parts produced since construction or the last GetProduct
  given,    \* the products GetProduct returned, each with the parts it then held
  freed,    \* the products the client has deleted
  blast     \* the call made last on the builder

(* Observer.cpp *)
VARIABLES
  list_observer_,         \* Subject::list_observer_
  message_,               \* Subject::message_
  message_from_subject_,  \* Observer::message_from_subject_ of every observer
  made_observers,         \* the observers that have been constructed
  roll,                   \* the observers attached and not detached since, by time of attachment
  olast                   \* the call made last, with the Update calls it caused

(* Mediator.cpp *)
VARIABLES
  mediator_,  \* BaseComponent::mediator_ of c1 and c2
  built,      \* whether the ConcreteMediator has been constructed
  stack,      \* the calls in progress, innermost last
  trace,      \* what the operation the client triggered last has done, in order
  mlast       \* the operation the client triggered last

(* Team.cpp *)
VARIABLES
  on_start_,   \* Invoker::on_start_
  on_finish_,  \* Invoker::on_finish_
  was_set,     \* which of SetOnStart, SetOnFinish have been called
  ilast        \* the call made last on the invoker, with what it executed

treeVars == <<objs, parent, children, last, pc, dtor>>
singletonVars == <<singleton_, heap, thr, calls>>
chainVars == <<next_handler_, hlast>>
flyVars == <<flyweights_, asked, flast>>
builderVars == <<parts_, product, made, given, freed, blast>>

(* The programs added after the first four. *)
observerVars == <<list_observer_, message_, message_from_subject_,
                  made_observers, roll, olast>>
mediatorVars == <<mediator_, built, stack, trace, mlast>>
invokerVars == <<on_start_, on_finish_, was_set, ilast>>
moreVars == <<builderVars, observerVars, mediatorVars, invokerVars>>

vars == <<treeVars, singletonVars, chainVars, flyVars, moreVars>>

(* What an operation of one program leaves alone. *)
NotTree == <<singletonVars, chainVars, flyVars, moreVars>>
NotSingleton == <<treeVars, chainVars, flyVars, moreVars>>
NotChain == <<treeVars, singletonVars, flyVars, moreVars>>
NotFly == <<treeVars, singletonVars, chainVars, moreVars>>
NotBuilder == <<treeVars, singletonVars, chainVars, flyVars, observerVars, mediatorVars, invokerVars>>
NotObserver == <<treeVars, singletonVars, chainVars, flyVars, builderVars, mediatorVars, invokerVars>>
NotMediator == <<treeVars, singletonVars, chainVars, flyVars, builderVars, observerVars, invokerVars>>
NotInvoker == <<treeVars, singletonVars, chainVars, flyVars, builderVars, observerVars, mediatorVars>>

(* ---------------------------------------------------------------------- *)
(* The other programs, not started                                        *)
(* ---------------------------------------------------------------------- *)

Threads == {"ThreadFoo", "ThreadBar"}
Handlers == {"monkey", "squirrel", "dog"}

(* Singleton::singleton_ = nullptr (line 55); no thread started. *)
SingletonParked ==
  /\ singleton_ = 0
  /\ heap = <<>>
  /\ thr = [t \in Threads |-> [pc |-> "idle", tmp |-> 0, ret |-> 0, out |-> ""]]
  /\ calls = <<>>

(* AbstractHandler(): next_handler_(nullptr); no call made. *)
ChainParked ==
  /\ next_handler_ = [h \in Handlers |-> None]
  /\ hlast = [op |-> "none", self |-> None, arg |-> None,
              ret |-> [ok |-> TRUE, out |-> "", seen |-> <<>>]]

(* No factory constructed. *)
FlyParked ==
  /\ flyweights_ = <<>>
  /\ asked = {}
  /\ flast = [op |-> "none", key |-> "", had |-> {}, size |-> 0]

(* No builder constructed. *)
BuilderParked ==
  /\ parts_ = <<>>
  /\ product = 0
  /\ made = <<>>
  /\ given = <<>>
  /\ freed = {}
  /\ blast = [op |-> "none", ret |-> 0]

Observers == {"observer1", "observer2", "observer3"}

(* No subject constructed; std::string members are empty. *)
ObserverParked ==
  /\ list_observer_ = <<>>
  /\ message_ = ""
  /\ message_from_subject_ = [o \in Observers |-> ""]
  /\ made_observers = {}
  /\ roll = <<>>
  /\ olast = [op |-> "none", self |-> None, arg |-> "", updates |-> <<>>]

MediatedComponents == {"c1", "c2"}

(* BaseComponent(Mediator *mediator = nullptr); nothing triggered. *)
MediatorParked ==
  /\ mediator_ = [c \in MediatedComponents |-> None]
  /\ built = FALSE
  /\ stack = <<>>
  /\ trace = <<>>
  /\ mlast = [op |-> "none", mediated |-> FALSE]

(* No invoker constructed. *)
InvokerParked ==
  /\ on_start_ = None
  /\ on_finish_ = None
  /\ was_set = {}
  /\ ilast = [op |-> "none", at |-> "done", start |-> None, finish |-> None, out |-> <<>>]

MoreParked == BuilderParked /\ ObserverParked /\ MediatorParked /\ InvokerParked

(* Components of Linker.cpp not allocated. *)
TreeParked ==
  /\ objs = {}
  /\ parent = [n \in Names |-> None]
  /\ children = [c \in Composites |-> <<>>]
  /\ last = [op |-> "none", self |-> None, arg |-> None,
             ret |-> [ok |-> TRUE, out |-> <<>>, calls |-> 0], was |-> <<>>]
  /\ pc = 0
  /\ dtor = [n \in Names |-> 0]

(* ---------------------------------------------------------------------- *)
(* Pure helpers                                                           *)
(* ---------------------------------------------------------------------- *)

Range(s) == {s[i] : i \in 1..Len(s)}

(* Component::IsComposite (inherited by Leaf) and Composite::IsComposite. *)
ComponentIsComposite == FALSE
CompositeIsComposite == TRUE

(* An IsComposite that answers whether the node has children at present. *)
IsComposite_HasChildren(n) == n \in Composites /\ children[n] # <<>>

(* n->IsComposite(): the body of the class the object was created as. *)
IsComposite(n) ==
  IF n \in Composites THEN CompositeIsComposite ELSE ComponentIsComposite

(* Component::GetParent *)
GetParent(n) == parent[n]

(* A parent_ shared by all components, as a static member would be. *)
WithParent_Shared(n, p) == [m \in Names |-> p]

(* Component::SetParent: the parent_ fields after n->SetParent(p). *)
WithParent(n, p) == [parent EXCEPT ![n] = p]

(* push_front in place of push_back. *)
PushFront(s, v) == <<v>> \o s

(* std::list::push_back *)
PushBack(s, v) == Append(s, v)

(* An erase loop that stops at the first match. *)
RECURSIVE ListRemove_FirstOnly(_, _)
ListRemove_FirstOnly(s, v) ==
  IF s = <<>> THEN <<>>
  ELSE IF Head(s) = v THEN Tail(s)
  ELSE <<Head(s)>> \o ListRemove_FirstOnly(Tail(s), v)

(* An erase loop with the comparison inverted. *)
RECURSIVE ListRemove_Inverted(_, _)
ListRemove_Inverted(s, v) ==
  IF s = <<>> THEN <<>>
  ELSE IF Head(s) # v THEN ListRemove_Inverted(Tail(s), v)
  ELSE <<Head(s)>> \o ListRemove_Inverted(Tail(s), v)

(* std::list::remove(value): walks the list and erases every element that *)
(* compares equal to value.                                               *)
RECURSIVE ListRemove(_, _)
ListRemove(s, v) ==
  IF s = <<>> THEN <<>>
  ELSE IF Head(s) = v THEN ListRemove(Tail(s), v)
  ELSE <<Head(s)>> \o ListRemove(Tail(s), v)

(* std::list::back *)
Back(s) == s[Len(s)]

(* What one call of Operation produced: ok is FALSE when the recursion ran  *)
(* out of stack, out is the returned text as a sequence of pieces, calls    *)
(* counts the invocations of Operation made, the outermost included.        *)
NoRet == [ok |-> TRUE, out |-> <<>>, calls |-> 0]

(* A Leaf::Operation that returns an empty string. *)
LeafOperation_Empty == [ok |-> TRUE, out |-> <<>>, calls |-> 1]

(* Leaf::Operation *)
LeafOperation == [ok |-> TRUE, out |-> <<"Leaf">>, calls |-> 1]

(* A loop body that appends "+" after every child. *)
Piece_Always(c, back, text) == text \o <<"+">>

(* The loop body of Composite::Operation, lines 107-111: the child's text, *)
(* followed by "+" unless the child pointer equals children_.back().      *)
Piece(c, back, text) == IF c = back THEN text ELSE text \o <<"+">>

(* A return statement that leaves the closing bracket out. *)
Wrap_Unclosed(text) == <<"Branch(">> \o text

(* Line 113 of Composite::Operation. *)
Wrap(text) == <<"Branch(">> \o text \o <<")">>

(* Composite::Operation over the children lists ch, with `depth` frames of *)
(* stack left. OperationLoop is the range-for from position i on.          *)
RECURSIVE Operation(_, _, _), OperationLoop(_, _, _, _, _)
(* A loop body that evaluates c->Operation() twice for every child. *)
OperationLoop_Twice(ch, n, i, depth, acc) ==
  IF i > Len(ch[n]) THEN acc
  ELSE LET c == ch[n][i]
           r == Operation(ch, c, depth)
       IN IF ~r.ok
          THEN [ok |-> FALSE, out |-> <<>>, calls |-> acc.calls + r.calls]
          ELSE OperationLoop(ch, n, i + 1, depth,
                 [ok |-> TRUE,
                  out |-> acc.out \o Piece(c, Back(ch[n]), r.out),
                  calls |-> acc.calls + r.calls + r.calls])

OperationLoop(ch, n, i, depth, acc) ==
  IF i > Len(ch[n]) THEN acc
  ELSE LET c == ch[n][i]
           r == Operation(ch, c, depth)
       IN IF ~r.ok
          THEN [ok |-> FALSE, out |-> <<>>, calls |-> acc.calls + r.calls]
          ELSE OperationLoop(ch, n, i + 1, depth,
                 [ok |-> TRUE,
                  out |-> acc.out \o Piece(c, Back(ch[n]), r.out),
                  calls |-> acc.calls + r.calls])

Operation(ch, n, depth) ==
  IF depth = 0 THEN [ok |-> FALSE, out |-> <<>>, calls |-> 1]
  ELSE IF ~IsComposite(n) THEN LeafOperation
  ELSE LET r == OperationLoop(ch, n, 1, depth - 1,
                                [ok |-> TRUE, out |-> <<>>, calls |-> 1])
       IN IF r.ok THEN [r EXCEPT !.out = Wrap(r.out)] ELSE r

(* The std::string a sequence of pieces stands for. *)
RECURSIVE Text(_)
Text(s) == IF s = <<>> THEN "" ELSE Head(s) \o Text(Tail(s))

(* ---------------------------------------------------------------------- *)
(* Operations of the classes                                              *)
(* ---------------------------------------------------------------------- *)

(* A base-class Add that records the receiver as the argument's parent. *)
ComponentAdd_SetsParent(n, x) ==
  /\ children' = children
  /\ parent' = WithParent(x, n)

(* Component::Add and Component::Remove: empty bodies. *)
ComponentAdd(n, x) == UNCHANGED <<parent, children>>
ComponentRemove(n, x) == UNCHANGED <<parent, children>>

(* An Add that stores `this` in the list. *)
CompositeAdd_PushesThis(c, x) ==
  /\ children' = [children EXCEPT ![c] = PushBack(@, c)]
  /\ parent' = WithParent(x, c)

(* Composite::Add *)
CompositeAdd(c, x) ==
  /\ children' = [children EXCEPT ![c] = PushBack(@, x)]
  /\ parent' = WithParent(x, c)

(* A Remove that leaves the removed child's parent_ as it was. *)
CompositeRemove_KeepsParent(c, x) ==
  /\ children' = [children EXCEPT ![c] = ListRemove(@, x)]
  /\ parent' = parent

(* Composite::Remove *)
CompositeRemove(c, x) ==
  /\ children' = [children EXCEPT ![c] = ListRemove(@, x)]
  /\ parent' = WithParent(x, None)

(* Virtual dispatch of n->Add(x) and n->Remove(x). *)
Add(n, x) == IF IsComposite(n) THEN CompositeAdd(n, x) ELSE ComponentAdd(n, x)
Remove(n, x) == IF IsComposite(n) THEN CompositeRemove(n, x) ELSE ComponentRemove(n, x)

(* new Leaf / new Composite: children_ is an empty list, parent_ is not set. *)
New(n) ==
  /\ n \notin objs
  /\ objs' = objs \cup {n}
  /\ \E g \in Garbage : parent' = WithParent(n, g)
  /\ children' = IF IsComposite(n) THEN [children EXCEPT ![n] = <<>>] ELSE children

(* A destructor that also deletes the nodes in children_. *)
Delete_Cascade(n) ==
  LET gone == {n} \cup (IF IsComposite(n) THEN Range(children[n]) ELSE {})
  IN /\ objs' = objs \ gone
     /\ dtor' = [m \in Names |-> IF m \in gone THEN dtor[m] + 1 ELSE dtor[m]]
     /\ children' = IF IsComposite(n) THEN [children EXCEPT ![n] = <<>>] ELSE children
     /\ UNCHANGED parent

(* delete n: ~Composite() is implicit, it destroys the list children_ (the  *)
(* pointers, not the nodes they point to) and runs ~Component(), which is   *)
(* empty. Pointers to n held elsewhere are left as they are.                *)
Delete(n) ==
  /\ objs' = objs \ {n}
  /\ dtor' = [dtor EXCEPT ![n] = @ + 1]
  /\ children' = IF IsComposite(n) THEN [children EXCEPT ![n] = <<>>] ELSE children
  /\ UNCHANGED parent

(* The children_ list of the receiver as it was when the call was made. *)
Was(n) == IF IsComposite(n) THEN children[n] ELSE <<>>

Call(op, n, x, r) == [op |-> op, self |-> n, arg |-> x, ret |-> r, was |-> Was(n)]

(* ---------------------------------------------------------------------- *)
(* A client that makes any call on the objects of Pool                    *)
(* ---------------------------------------------------------------------- *)

TotalEntries == Len(children["tree"]) + Len(children["branch1"]) + Len(children["branch2"])

CallSetParent ==
  \E n \in objs, p \in objs \cup {None} :
    /\ pc = 0
    /\ parent' = WithParent(n, p)
    /\ last' = Call("SetParent", n, p, NoRet)
    /\ UNCHANGED <<objs, children, pc, dtor, NotTree>>

CallAdd ==
  \E n \in objs, x \in objs :
    /\ pc = 0
    /\ IsComposite(n) => TotalEntries < MaxEntries
    /\ Add(n, x)
    /\ last' = Call("Add", n, x, NoRet)
    /\ UNCHANGED <<objs, pc, dtor, NotTree>>

CallRemove ==
  \E n \in objs, x \in objs :
    /\ pc = 0
    /\ Remove(n, x)
    /\ last' = Call("Remove", n, x, NoRet)
    /\ UNCHANGED <<objs, pc, dtor, NotTree>>

(* A ClientCode that detaches the component it describes. *)
ClientCode_Detaches(n) ==
  /\ last' = Call("Operation", n, None, Operation(children, n, MaxDepth))
  /\ parent' = WithParent(n, None)
  /\ UNCHANGED <<objs, children>>

(* ClientCode(component): prints component->Operation(). *)
ClientCode(n) ==
  /\ last' = Call("Operation", n, None, Operation(children, n, MaxDepth))
  /\ UNCHANGED <<objs, parent, children>>

(* ClientCode2(component1, component2) *)
ClientCode2(n, x) ==
  /\ IF IsComposite(n) THEN Add(n, x) ELSE UNCHANGED <<parent, children>>
  /\ last' = Call("Operation", n, x, Operation(children', n, MaxDepth))
  /\ UNCHANGED objs

CallOperation ==
  \E n \in objs :
    /\ pc = 0
    /\ ClientCode(n)
    /\ UNCHANGED <<pc, dtor, NotTree>>

Init ==
  /\ objs = Pool
  /\ parent \in [Names -> Garbage]
  /\ \A n \in Names \ Pool : parent[n] = None
  /\ children = [c \in Composites |-> <<>>]
  /\ last = Call("none", None, None, NoRet)
  /\ pc = 0
  /\ dtor = [n \in Names |-> 0]
  /\ SingletonParked /\ ChainParked /\ FlyParked /\ MoreParked

(* The client builds and reads trees through Add, Remove and Operation. *)
Next == CallAdd \/ CallRemove \/ CallOperation

Spec == Init /\ [][Next]_vars

(* The client also calls SetParent directly. *)
NextSetParent == CallSetParent \/ CallAdd \/ CallRemove \/ CallOperation

SpecSetParent == Init /\ [][NextSetParent]_vars

(* A client that only builds with Add and re-parents with SetParent: it    *)
(* reaches every pair of children_ lists and parent_ values that the       *)
(* larger client reaches.                                                  *)
NextReparent == CallSetParent \/ CallAdd

SpecReparent == Init /\ [][NextReparent]_vars

(* ---------------------------------------------------------------------- *)
(* main(), lines 144-178, statement by statement                          *)
(* ---------------------------------------------------------------------- *)

Main == <<
  [stmt |-> "new",         a |-> "simple",  b |-> None],       \* 144
  [stmt |-> "ClientCode",  a |-> "simple",  b |-> None],       \* 146
  [stmt |-> "new",         a |-> "tree",    b |-> None],       \* 152
  [stmt |-> "new",         a |-> "branch1", b |-> None],       \* 153
  [stmt |-> "new",         a |-> "leaf_1",  b |-> None],       \* 155
  [stmt |-> "new",         a |-> "leaf_2",  b |-> None],       \* 156
  [stmt |-> "new",         a |-> "leaf_3",  b |-> None],       \* 157
  [stmt |-> "Add",         a |-> "branch1", b |-> "leaf_1"],   \* 158
  [stmt |-> "Add",         a |-> "branch1", b |-> "leaf_2"],   \* 159
  [stmt |-> "new",         a |-> "branch2", b |-> None],       \* 160
  [stmt |-> "Add",         a |-> "branch2", b |-> "leaf_3"],   \* 161
  [stmt |-> "Add",         a |-> "tree",    b |-> "branch1"],  \* 162
  [stmt |-> "Add",         a |-> "tree",    b |-> "branch2"],  \* 163
  [stmt |-> "ClientCode",  a |-> "tree",    b |-> None],       \* 165
  [stmt |-> "ClientCode2", a |-> "tree",    b |-> "simple"],   \* 169
  [stmt |-> "delete",      a |-> "simple",  b |-> None],       \* 172
  [stmt |-> "delete",      a |-> "tree",    b |-> None],       \* 173
  [stmt |-> "delete",      a |-> "branch1", b |-> None],       \* 174
  [stmt |-> "delete",      a |-> "branch2", b |-> None],       \* 175
  [stmt |-> "delete",      a |-> "leaf_1",  b |-> None],       \* 176
  [stmt |-> "delete",      a |-> "leaf_2",  b |-> None],       \* 177
  [stmt |-> "delete",      a |-> "leaf_3",  b |-> None]        \* 178
>>

AtStmt(s) == pc \in 1..Len(Main) /\ Main[pc].stmt = s

MainNew ==
  /\ AtStmt("new")
  /\ New(Main[pc].a)
  /\ last' = Call("new", Main[pc].a, None, NoRet)
  /\ pc' = pc + 1
  /\ UNCHANGED <<dtor, NotTree>>

MainAdd ==
  /\ AtStmt("Add")
  /\ Add(Main[pc].a, Main[pc].b)
  /\ last' = Call("Add", Main[pc].a, Main[pc].b, NoRet)
  /\ pc' = pc + 1
  /\ UNCHANGED <<objs, dtor, NotTree>>

MainClientCode ==
  /\ AtStmt("ClientCode")
  /\ ClientCode(Main[pc].a)
  /\ pc' = pc + 1
  /\ UNCHANGED <<dtor, NotTree>>

MainClientCode2 ==
  /\ AtStmt("ClientCode2")
  /\ ClientCode2(Main[pc].a, Main[pc].b)
  /\ pc' = pc + 1
  /\ UNCHANGED <<dtor, NotTree>>

MainDelete ==
  /\ AtStmt("delete")
  /\ Delete(Main[pc].a)
  /\ last' = Call("delete", Main[pc].a, None, NoRet)
  /\ pc' = pc + 1
  /\ UNCHANGED NotTree

InitMain ==
  /\ objs = {}
  /\ parent = [n \in Names |-> None]
  /\ children = [c \in Composites |-> <<>>]
  /\ last = Call("none", None, None, NoRet)
  /\ pc = 1
  /\ dtor = [n \in Names |-> 0]
  /\ SingletonParked /\ ChainParked /\ FlyParked /\ MoreParked

NextMain == MainNew \/ MainAdd \/ MainClientCode \/ MainClientCode2 \/ MainDelete

SpecMain == InitMain /\ [][NextMain]_vars

TypeOK ==
  /\ objs \subseteq Names
  /\ parent \in [Names -> Names \cup {None, Wild}]
  /\ \A c \in Composites : Range(children[c]) \subseteq Names
  /\ dtor \in [Names -> 0..1]
  /\ pc \in 0..(Len(Main) + 1)

(* ---------------------------------------------------------------------- *)
(* Singleton.cpp: ThreadFoo and ThreadBar call Singleton::GetInstance     *)
(* ---------------------------------------------------------------------- *)

(* The argument each thread passes to GetInstance (lines 75 and 82). *)
Value(t) == IF t = "ThreadFoo" THEN "FOO" ELSE "BAR"

At(t, where) == thr[t].pc = where
Goto(t, where) == [thr EXCEPT ![t].pc = where]

(* main, lines 93-94: std::thread t1(ThreadFoo); std::thread t2(ThreadBar). *)
ThreadStart(t) ==
  /\ At(t, "idle")
  /\ t = "ThreadBar" => ~At("ThreadFoo", "idle")
  /\ thr' = Goto(t, "sleep")
  /\ UNCHANGED <<singleton_, heap, calls, NotSingleton>>

(* Lines 74 and 81: sleep_for returns and the thread calls GetInstance. *)
ThreadWake(t) ==
  /\ At(t, "sleep")
  /\ thr' = Goto(t, "check")
  /\ UNCHANGED <<singleton_, heap, calls, NotSingleton>>

(* Line 66: if (singleton_ == nullptr); no lock is held. *)
GetInstanceCheck(t) ==
  /\ At(t, "check")
  /\ thr' = Goto(t, IF singleton_ = 0 THEN "new" ELSE "return")
  /\ UNCHANGED <<singleton_, heap, calls, NotSingleton>>

(* Line 67, right-hand side: new Singleton(value). *)
GetInstanceNew(t) ==
  /\ At(t, "new")
  /\ heap' = Append(heap, Value(t))
  /\ thr' = [thr EXCEPT ![t].pc = "store", ![t].tmp = Len(heap) + 1]
  /\ UNCHANGED <<singleton_, calls, NotSingleton>>

(* Line 67, the assignment to singleton_. *)
GetInstanceStore(t) ==
  /\ At(t, "store")
  /\ singleton_' = thr[t].tmp
  /\ thr' = Goto(t, "return")
  /\ UNCHANGED <<heap, calls, NotSingleton>>

(* Line 69: return singleton_. The read races with the other thread's     *)
(* store: a thread that has just stored may return the value it stored    *)
(* (kept in a register) or the value now in memory.                       *)
GetInstanceReturn(t) ==
  /\ At(t, "return")
  /\ \E v \in {singleton_} \cup (IF thr[t].tmp # 0 THEN {thr[t].tmp} ELSE {}) :
       thr' = [thr EXCEPT ![t].pc = "print", ![t].ret = v]
  /\ UNCHANGED <<singleton_, heap, calls, NotSingleton>>

(* Lines 76 and 83: std::cout << singleton->value(). *)
ThreadPrint(t) ==
  /\ At(t, "print")
  /\ thr' = [thr EXCEPT ![t].pc = "done", ![t].out = heap[thr[t].ret]]
  /\ UNCHANGED <<singleton_, heap, calls, NotSingleton>>

StartThread == \E t \in Threads : ThreadStart(t)
WakeThread == \E t \in Threads : ThreadWake(t)
CheckInstance == \E t \in Threads : GetInstanceCheck(t)
NewInstance == \E t \in Threads : GetInstanceNew(t)
StoreInstance == \E t \in Threads : GetInstanceStore(t)
ReturnInstance == \E t \in Threads : GetInstanceReturn(t)
PrintValue == \E t \in Threads : ThreadPrint(t)

InitSingleton == SingletonParked /\ TreeParked /\ ChainParked /\ FlyParked /\ MoreParked

NextSingleton ==
  \/ StartThread \/ WakeThread \/ CheckInstance \/ NewInstance
  \/ StoreInstance \/ ReturnInstance \/ PrintValue

SpecSingleton == InitSingleton /\ [][NextSingleton]_vars

(* A GetInstance that constructs an object on every call. *)
GetInstance_AlwaysNew(s, h, value) ==
  [singleton |-> Len(h) + 1, heap |-> Append(h, value), ret |-> Len(h) + 1]

(* Singleton::GetInstance, lines 60-70, run by one thread with no other    *)
(* thread in it: s is singleton_, h the objects constructed so far.        *)
GetInstance(s, h, value) ==
  IF s = 0
  THEN [singleton |-> Len(h) + 1, heap |-> Append(h, value), ret |-> Len(h) + 1]
  ELSE [singleton |-> s, heap |-> h, ret |-> s]

(* Singleton* singleton = Singleton::GetInstance(v); singleton->value(),   *)
(* as in lines 75-76, from a single thread.                                *)
CallGetInstance ==
  \E v \in {Value(t) : t \in Threads} :
    LET got == GetInstance(singleton_, heap, v)
    IN /\ Len(calls) < MaxCalls
       /\ singleton_' = got.singleton
       /\ heap' = got.heap
       /\ calls' = Append(calls, [arg |-> v, ret |-> got.ret,
                                  value |-> got.heap[got.ret]])
       /\ UNCHANGED <<thr, NotSingleton>>

NextSingleThread == CallGetInstance

SpecSingleThread == InitSingleton /\ [][NextSingleThread]_vars

(* ---------------------------------------------------------------------- *)
(* chainOfResponsibilities.cpp: handlers, SetNext, Handle                 *)
(* ---------------------------------------------------------------------- *)

(* The request each concrete handler compares with (lines 49, 59, 69). *)
Food(h) ==
  CASE h = "monkey" -> "Banana"
    [] h = "squirrel" -> "Nut"
    [] h = "dog" -> "MeatBall"

(* The name each concrete handler answers with (lines 50, 60, 70). *)
Speaker(h) ==
  CASE h = "monkey" -> "Monkey"
    [] h = "squirrel" -> "Squirrel"
    [] h = "dog" -> "Dog"

(* The requests of ClientCode (line 83) and the one DogHandler takes. *)
Requests == {"Nut", "Banana", "Cup of coffee", "MeatBall"}

(* Lines 50, 60, 70. *)
Response(h, r) == Speaker(h) \o ": I'll eat the " \o r \o ".\n"

(* What a call of Handle produced: ok is FALSE when the recursion ran out  *)
(* of stack, out is the string returned, seen lists the handlers whose     *)
(* Handle ran, in order.                                                   *)
NoAnswer == [ok |-> TRUE, out |-> "", seen |-> <<>>]

RECURSIVE Handle(_, _, _, _)
(* An AbstractHandler::Handle that never passes the request on. *)
AbstractHandle_Stops(nx, h, r, depth) == [ok |-> TRUE, out |-> "", seen |-> <<h>>]

(* AbstractHandler::Handle, lines 33-39, with `depth` frames of stack left. *)
AbstractHandle(nx, h, r, depth) ==
  IF nx[h] # None
  THEN LET x == Handle(nx, nx[h], r, depth - 1)
       IN [x EXCEPT !.seen = <<h>> \o @]
  ELSE [ok |-> TRUE, out |-> "", seen |-> <<h>>]

(* MonkeyHandler::Handle, SquirrelHandler::Handle, DogHandler::Handle. *)
Handle(nx, h, r, depth) ==
  IF depth = 0 THEN [ok |-> FALSE, out |-> "", seen |-> <<>>]
  ELSE IF r = Food(h) THEN [ok |-> TRUE, out |-> Response(h, r), seen |-> <<h>>]
  ELSE AbstractHandle(nx, h, r, depth)

(* AbstractHandler::SetNext *)
SetNext(h, g) == next_handler_' = [next_handler_ EXCEPT ![h] = g]

CallSetNext ==
  \E h \in Handlers, g \in Handlers \cup {None} :
    /\ SetNext(h, g)
    /\ hlast' = [op |-> "SetNext", self |-> h, arg |-> g, ret |-> NoAnswer]
    /\ UNCHANGED NotChain

CallHandle ==
  \E h \in Handlers, r \in Requests :
    /\ hlast' = [op |-> "Handle", self |-> h, arg |-> r,
                 ret |-> Handle(next_handler_, h, r, MaxDepth)]
    /\ UNCHANGED <<next_handler_, NotChain>>

InitChain == ChainParked /\ TreeParked /\ SingletonParked /\ FlyParked /\ MoreParked

NextChain == CallSetNext \/ CallHandle

SpecChain == InitChain /\ [][NextChain]_vars

(* ---------------------------------------------------------------------- *)
(* Lightweight.cpp: FlyweightFactory                                      *)
(* ---------------------------------------------------------------------- *)

SharedState(brand, model, color) == [brand_ |-> brand, model_ |-> model, color_ |-> color]

(* The shared states the client uses: three of main's (lines 150-167) and  *)
(* two whose fields contain the separator of GetKey.                       *)
Cars == {
  SharedState("BMW", "M5", "red"),
  SharedState("BMW", "X1", "red"),
  SharedState("BMW", "X6", "white"),
  SharedState("BMW", "M5_red", "red"),
  SharedState("BMW_M5", "red", "red") }

(* FlyweightFactory::GetKey *)
GetKey(ss) == ss.brand_ \o "_" \o ss.model_ \o "_" \o ss.color_

(* std::unordered_map::find(key) != end() *)
MapHas(m, key) == \E i \in 1..Len(m) : m[i].key = key

(* An insert that adds an entry whether or not the key is present. *)
MapInsert_Always(m, key, ss) == Append(m, [key |-> key, shared |-> ss])

(* std::unordered_map::insert: no effect when the key is present. The map  *)
(* is kept as the sequence of its entries in insertion order.              *)
MapInsert(m, key, ss) ==
  IF MapHas(m, key) THEN m ELSE Append(m, [key |-> key, shared |-> ss])

(* FlyweightFactory::FlyweightFactory, lines 95-101. *)
RECURSIVE Populate(_, _)
Populate(m, list) ==
  IF list = <<>> THEN m
  ELSE Populate(MapInsert(m, GetKey(Head(list)), Head(list)), Tail(list))

(* FlyweightFactory::GetFlyweight, lines 106-119. *)
GetFlyweight(ss) ==
  LET key == GetKey(ss)
  IN /\ flyweights_' = IF ~MapHas(flyweights_, key)
                       THEN MapInsert(flyweights_, key, ss)
                       ELSE flyweights_
     /\ asked' = asked \cup {key}
     /\ flast' = [op |-> "GetFlyweight", key |-> key, had |-> asked,
                  size |-> Len(flyweights_)]

CallGetFlyweight ==
  \E ss \in Cars :
    /\ flast.op # "none"
    /\ GetFlyweight(ss)
    /\ UNCHANGED NotFly

InitLists == UNION {[1..k -> Cars] : k \in 0..MaxInit}

InitFly ==
  /\ \E list \in InitLists :
       /\ flyweights_ = Populate(<<>>, list)
       /\ asked = {GetKey(list[i]) : i \in 1..Len(list)}
  /\ flast = [op |-> "new", key |-> "", had |-> {}, size |-> 0]
  /\ TreeParked /\ SingletonParked /\ ChainParked /\ MoreParked

NextFly == CallGetFlyweight

SpecFly == InitFly /\ [][NextFly]_vars

(* ---------------------------------------------------------------------- *)
(* Builder.cpp: ConcreteBuilder1                                          *)
(* ---------------------------------------------------------------------- *)

FirstFour == TreeParked /\ SingletonParked /\ ChainParked /\ FlyParked

(* The number of parts the builder has produced so far. *)
RECURSIVE PartsGiven(_)
PartsGiven(gs) == IF gs = <<>> THEN 0 ELSE Len(Head(gs).parts) + PartsGiven(Tail(gs))

PartsMade == PartsGiven(given) + Len(made)

(* A Reset that keeps the product the builder already has. *)
Reset_KeepsProduct(ps) ==
  IF ps = <<>> THEN [parts |-> << <<>> >>, product |-> 1]
  ELSE [parts |-> ps, product |-> Len(ps)]

(* ConcreteBuilder1::Reset, lines 62-64: product = new Product1(). The new *)
(* product is the next one in allocation order and has no parts.           *)
Reset(ps) == [parts |-> Append(ps, <<>>), product |-> Len(ps) + 1]

(* ConcreteBuilder1::ProducePartA/B/C, lines 69-79. *)
PartName(which) == "Part" \o which \o "1"

ProducePart(which) ==
  /\ parts_' = [parts_ EXCEPT ![product] = Append(@, PartName(which))]
  /\ made' = Append(made, PartName(which))
  /\ blast' = [op |-> "ProducePart" \o which, ret |-> 0]
  /\ UNCHANGED <<product, given, freed>>

CallProducePartA ==
  /\ product # 0
  /\ PartsMade < MaxParts
  /\ ProducePart("A")
  /\ UNCHANGED NotBuilder

CallProducePartB ==
  /\ product # 0
  /\ PartsMade < MaxParts
  /\ ProducePart("B")
  /\ UNCHANGED NotBuilder

CallProducePartC ==
  /\ product # 0
  /\ PartsMade < MaxParts
  /\ ProducePart("C")
  /\ UNCHANGED NotBuilder

(* ConcreteBuilder1::GetProduct, lines 108-112. *)
GetProduct ==
  LET result == product
      fresh == Reset(parts_)
  IN /\ parts_' = fresh.parts
     /\ product' = fresh.product
     /\ given' = Append(given, [id |-> result, parts |-> made])
     /\ made' = <<>>
     /\ blast' = [op |-> "GetProduct", ret |-> result]
     /\ UNCHANGED freed

CallGetProduct ==
  /\ product # 0
  /\ Len(parts_) < MaxProducts
  /\ GetProduct
  /\ UNCHANGED NotBuilder

(* ClientCode, lines 173, 180, 188: delete p, for a product it was given. *)
CallDeleteProduct ==
  \E i \in 1..Len(given) :
    /\ given[i].id \notin freed
    /\ freed' = freed \cup {given[i].id}
    /\ parts_' = [parts_ EXCEPT ![given[i].id] = <<>>]
    /\ blast' = [op |-> "delete", ret |-> given[i].id]
    /\ UNCHANGED <<product, made, given>>
    /\ UNCHANGED NotBuilder

(* new ConcreteBuilder1(), lines 54-56 and 166. *)
InitBuilder ==
  /\ parts_ = Reset(<<>>).parts
  /\ product = Reset(<<>>).product
  /\ made = <<>>
  /\ given = <<>>
  /\ freed = {}
  /\ blast = [op |-> "new", ret |-> 0]
  /\ FirstFour /\ ObserverParked /\ MediatorParked /\ InvokerParked

NextBuilder ==
  \/ CallProducePartA
  \/ CallProducePartB
  \/ CallProducePartC
  \/ CallGetProduct
  \/ CallDeleteProduct

SpecBuilder == InitBuilder /\ [][NextBuilder]_vars

(* ---------------------------------------------------------------------- *)
(* Observer.cpp: Subject and Observer                                     *)
(* ---------------------------------------------------------------------- *)

(* The messages the client creates (lines 142, 145) and the default        *)
(* argument of CreateMessage (line 67).                                    *)
Messages == {"Hello World! :D", "The weather is hot today! :p", "Empty"}

(* An Update that leaves the observer's stored message as it was. *)
Update_KeepsOld(stored, o, m) == stored

(* Observer::Update, lines 109-113. *)
Update(stored, o, m) == [stored EXCEPT ![o] = m]

(* Subject::Notify, lines 57-65: the walk over list_observer_ from the     *)
(* iterator on. acc holds the observers' stored messages and the Update    *)
(* calls made so far.                                                      *)
RECURSIVE NotifyLoop(_, _, _)
NotifyLoop(rest, m, acc) ==
  IF rest = <<>> THEN acc
  ELSE NotifyLoop(Tail(rest), m,
                  [stored |-> Update(acc.stored, Head(rest), m),
                   updates |-> Append(acc.updates, <<Head(rest), m>>)])

Notify(m) ==
  NotifyLoop(list_observer_, m, [stored |-> message_from_subject_, updates |-> <<>>])

(* Subject::Attach, lines 49-52. *)
Attach(o) == list_observer_' = PushBack(list_observer_, o)

(* Subject::Detach, lines 53-56. *)
Detach(o) == list_observer_' = ListRemove(list_observer_, o)

(* Observer::Observer, lines 98-103. *)
NewObserver ==
  \E o \in Observers \ made_observers :
    /\ Len(list_observer_) < MaxAttached
    /\ made_observers' = made_observers \cup {o}
    /\ Attach(o)
    /\ roll' = Append(roll, o)
    /\ olast' = [op |-> "new", self |-> o, arg |-> "", updates |-> <<>>]
    /\ UNCHANGED <<message_, message_from_subject_, NotObserver>>

(* subject->Attach(observer) called by the client on an observer it has. *)
CallAttach ==
  \E o \in made_observers :
    /\ Len(list_observer_) < MaxAttached
    /\ Attach(o)
    /\ roll' = Append(roll, o)
    /\ olast' = [op |-> "Attach", self |-> o, arg |-> "", updates |-> <<>>]
    /\ UNCHANGED <<message_, message_from_subject_, made_observers, NotObserver>>

(* Observer::RemoveMeFromTheList, lines 114-118. *)
CallRemoveMeFromTheList ==
  \E o \in made_observers :
    /\ Detach(o)
    /\ roll' = SelectSeq(roll, LAMBDA x : x # o)
    /\ olast' = [op |-> "Detach", self |-> o, arg |-> "", updates |-> <<>>]
    /\ UNCHANGED <<message_, message_from_subject_, made_observers, NotObserver>>

(* Subject::CreateMessage, lines 67-71. *)
CallCreateMessage ==
  \E m \in Messages :
    /\ message_' = m
    /\ message_from_subject_' = Notify(m).stored
    /\ olast' = [op |-> "CreateMessage", self |-> None, arg |-> m,
                 updates |-> Notify(m).updates]
    /\ UNCHANGED <<list_observer_, made_observers, roll, NotObserver>>

(* Subject::Notify called by the client. *)
CallNotify ==
  /\ message_from_subject_' = Notify(message_).stored
  /\ olast' = [op |-> "Notify", self |-> None, arg |-> "",
               updates |-> Notify(message_).updates]
  /\ UNCHANGED <<list_observer_, message_, made_observers, roll, NotObserver>>

(* Subject::SomeBusinessLogic, lines 83-88. *)
CallSomeBusinessLogic ==
  LET m == "change message message"
  IN /\ message_' = m
     /\ message_from_subject_' = Notify(m).stored
     /\ olast' = [op |-> "SomeBusinessLogic", self |-> None, arg |-> "",
                  updates |-> Notify(m).updates]
     /\ UNCHANGED <<list_observer_, made_observers, roll, NotObserver>>

(* new Subject, line 135. *)
InitObserver ==
  /\ list_observer_ = <<>>
  /\ message_ = ""
  /\ message_from_subject_ = [o \in Observers |-> ""]
  /\ made_observers = {}
  /\ roll = <<>>
  /\ olast = [op |-> "new Subject", self |-> None, arg |-> "", updates |-> <<>>]
  /\ FirstFour /\ BuilderParked /\ MediatorParked /\ InvokerParked

NextObserver ==
  \/ NewObserver
  \/ CallAttach
  \/ CallRemoveMeFromTheList
  \/ CallCreateMessage
  \/ CallNotify
  \/ CallSomeBusinessLogic

SpecObserver == InitObserver /\ [][NextObserver]_vars

(* ---------------------------------------------------------------------- *)
(* Mediator.cpp: components and ConcreteMediator                          *)
(* ---------------------------------------------------------------------- *)

Operations == {"DoA", "DoB", "DoC", "DoD"}

(* Component1 has DoA and DoB, Component2 has DoC and DoD; the mediator    *)
(* calls them through component1_ and component2_ (lines 79-80).           *)
Owner(op) == IF op \in {"DoA", "DoB"} THEN "c1" ELSE "c2"

(* The event an operation passes to Notify (lines 47, 52, 62, 68). *)
Event(op) ==
  CASE op = "DoA" -> "A" [] op = "DoB" -> "B" [] op = "DoC" -> "C" [] op = "DoD" -> "D"

(* A mediator that reacts on D with DoC before DoB. *)
Reaction_Swapped(event) ==
  CASE event = "A" -> <<"DoC">>
    [] event = "D" -> <<"DoC", "DoB">>
    [] OTHER -> <<>>

(* ConcreteMediator::Notify, lines 91-101: the operations it calls for an  *)
(* event, in order.                                                        *)
Reaction(event) ==
  CASE event = "A" -> <<"DoC">>
    [] event = "D" -> <<"DoB", "DoC">>
    [] OTHER -> <<>>

Top == stack[Len(stack)]
Pop == SubSeq(stack, 1, Len(stack) - 1)
SetTop(f) == [stack EXCEPT ![Len(stack)] = f]

(* new ConcreteMediator(c1, c2), lines 83-87. *)
NewMediator ==
  /\ stack = <<>>
  /\ ~built
  /\ built' = TRUE
  /\ mediator_' = [c \in MediatedComponents |-> "mediator"]
  /\ mlast' = [op |-> "new", mediated |-> FALSE]
  /\ trace' = <<>>
  /\ UNCHANGED <<stack, NotMediator>>

(* BaseComponent::set_mediator, lines 30-33. *)
CallSetMediator ==
  \E c \in MediatedComponents, m \in {None} \cup (IF built THEN {"mediator"} ELSE {}) :
    /\ stack = <<>>
    /\ mediator_' = [mediator_ EXCEPT ![c] = m]
    /\ mlast' = [op |-> "set_mediator", mediated |-> FALSE]
    /\ trace' = <<>>
    /\ UNCHANGED <<built, stack, NotMediator>>

(* The client calls an operation of a component (lines 114, 117). *)
ClientTriggers ==
  \E op \in Operations :
    /\ stack = <<>>
    /\ stack' = <<[fn |-> op, at |-> "begin", k |-> 0]>>
    /\ trace' = <<>>
    /\ mlast' = [op |-> op,
                 mediated |-> \A c \in MediatedComponents : mediator_[c] # None]
    /\ UNCHANGED <<mediator_, built, NotMediator>>

(* DoA/DoB/DoC/DoD: the std::cout line of the operation. *)
OperationBegins ==
  /\ stack # <<>>
  /\ Top.fn \in Operations /\ Top.at = "begin"
  /\ trace' = Append(trace, Top.fn)
  /\ stack' = SetTop([Top EXCEPT !.at = "notify"])
  /\ UNCHANGED <<mediator_, built, mlast, NotMediator>>

(* this->mediator_->Notify(this, event) with mediator_ set. *)
OperationNotifies ==
  /\ stack # <<>>
  /\ Top.fn \in Operations /\ Top.at = "notify"
  /\ mediator_[Owner(Top.fn)] # None
  /\ trace' = Append(trace, "Notify(" \o Event(Top.fn) \o ")")
  /\ stack' = Append(SetTop([Top EXCEPT !.at = "end"]),
                     [fn |-> "Notify", at |-> Event(Top.fn), k |-> 1])
  /\ UNCHANGED <<mediator_, built, mlast, NotMediator>>

(* this->mediator_->Notify(this, event) with mediator_ == nullptr: a call  *)
(* through a null pointer. The program is killed, or the call has no       *)
(* effect and the operation goes on.                                       *)
OperationNotifiesNull ==
  /\ stack # <<>>
  /\ Top.fn \in Operations /\ Top.at = "notify"
  /\ mediator_[Owner(Top.fn)] = None
  /\ \/ /\ trace' = Append(trace, "killed")
        /\ stack' = <<>>
     \/ /\ trace' = trace
        /\ stack' = SetTop([Top EXCEPT !.at = "end"])
  /\ UNCHANGED <<mediator_, built, mlast, NotMediator>>

(* The operation returns. *)
OperationReturns ==
  /\ stack # <<>>
  /\ Top.fn \in Operations /\ Top.at = "end"
  /\ stack' = Pop
  /\ UNCHANGED <<mediator_, built, trace, mlast, NotMediator>>

(* ConcreteMediator::Notify calls the next operation of its reaction. *)
NotifyCalls ==
  /\ stack # <<>>
  /\ Top.fn = "Notify" /\ Top.k <= Len(Reaction(Top.at))
  /\ stack' = Append(SetTop([Top EXCEPT !.k = @ + 1]),
                     [fn |-> Reaction(Top.at)[Top.k], at |-> "begin", k |-> 0])
  /\ UNCHANGED <<mediator_, built, trace, mlast, NotMediator>>

(* ConcreteMediator::Notify returns. *)
NotifyReturns ==
  /\ stack # <<>>
  /\ Top.fn = "Notify" /\ Top.k > Len(Reaction(Top.at))
  /\ stack' = Pop
  /\ UNCHANGED <<mediator_, built, trace, mlast, NotMediator>>

(* The program runs on while a call is in progress. *)
Runs ==
  \/ OperationBegins \/ OperationNotifies \/ OperationNotifiesNull
  \/ OperationReturns \/ NotifyCalls \/ NotifyReturns

(* new Component1, new Component2, lines 110-111. *)
InitMediator ==
  /\ mediator_ = [c \in MediatedComponents |-> None]
  /\ built = FALSE
  /\ stack = <<>>
  /\ trace = <<>>
  /\ mlast = [op |-> "new Component", mediated |-> FALSE]
  /\ FirstFour /\ BuilderParked /\ ObserverParked /\ InvokerParked

NextMediator ==
  \/ NewMediator
  \/ CallSetMediator
  \/ ClientTriggers
  \/ OperationBegins
  \/ OperationNotifies
  \/ OperationNotifiesNull
  \/ OperationReturns
  \/ NotifyCalls
  \/ NotifyReturns

(* A call in progress is run to its end: the program has one thread. *)
SpecMediator == InitMediator /\ [][NextMediator]_vars /\ WF_vars(Runs)

(* ---------------------------------------------------------------------- *)
(* Team.cpp: Invoker                                                      *)
(* ---------------------------------------------------------------------- *)

(* The commands main creates (lines 129, 131). *)
Commands == {"SimpleCommand", "ComplexCommand"}

(* SimpleCommand::Execute (lines 21-23) and ComplexCommand::Execute        *)
(* (lines 69-73), by what they print.                                      *)
Execute(c) ==
  IF c = "SimpleCommand"
  THEN <<"SimpleCommand: (Say Hi!)">>
  ELSE <<"ComplexCommand:", "Receiver: Working on (Send email.)",
         "Receiver: Also working on (Save report.)">>

(* if (slot) slot->Execute(): what can happen, as the set of pairs of what *)
(* was executed and what was printed. A slot never assigned holds an       *)
(* indeterminate value: when it is non-null the call goes through a        *)
(* pointer to no Command and the program is killed or runs whatever is     *)
(* there.                                                                  *)
Fire(slot) ==
  CASE slot = None -> {[ran |-> None, out |-> <<>>, killed |-> FALSE]}
    [] slot = Wild -> {[ran |-> Wild, out |-> <<>>, killed |-> TRUE],
                       [ran |-> Wild, out |-> <<"?">>, killed |-> FALSE]}
    [] OTHER -> {[ran |-> slot, out |-> Execute(slot), killed |-> FALSE]}

(* Invoker::SetOnStart, lines 100-102. *)
CallSetOnStart ==
  \E c \in Commands \cup {None} :
    /\ ilast.at = "done"
    /\ on_start_' = c
    /\ was_set' = was_set \cup {"start"}
    /\ ilast' = [op |-> "SetOnStart", at |-> "done", start |-> None,
                 finish |-> None, out |-> <<>>]
    /\ UNCHANGED <<on_finish_, NotInvoker>>

(* Invoker::SetOnFinish, lines 103-105. *)
CallSetOnFinish ==
  \E c \in Commands \cup {None} :
    /\ ilast.at = "done"
    /\ on_finish_' = c
    /\ was_set' = was_set \cup {"finish"}
    /\ ilast' = [op |-> "SetOnFinish", at |-> "done", start |-> None,
                 finish |-> None, out |-> <<>>]
    /\ UNCHANGED <<on_start_, NotInvoker>>

(* Invoker::DoSomethingImportant, line 112. *)
DoSomethingImportantBegins ==
  /\ ilast.at = "done"
  /\ ilast' = [op |-> "DoSomethingImportant", at |-> "start", start |-> None,
               finish |-> None, out |-> <<"Invoker: before">>]
  /\ UNCHANGED <<on_start_, on_finish_, was_set, NotInvoker>>

(* Lines 113-115. *)
DoSomethingImportantStart ==
  \E s \in Fire(on_start_) :
    /\ ilast.at = "start"
    /\ ilast' = [ilast EXCEPT !.at = IF s.killed THEN "killed" ELSE "important",
                              !.start = s.ran, !.out = @ \o s.out]
    /\ UNCHANGED <<on_start_, on_finish_, was_set, NotInvoker>>

(* Lines 116-117. *)
DoSomethingImportantWorks ==
  /\ ilast.at = "important"
  /\ ilast' = [ilast EXCEPT !.at = "finish",
                            !.out = @ \o <<"Invoker: important", "Invoker: after">>]
  /\ UNCHANGED <<on_start_, on_finish_, was_set, NotInvoker>>

(* Lines 118-120. *)
DoSomethingImportantFinish ==
  \E f \in Fire(on_finish_) :
    /\ ilast.at = "finish"
    /\ ilast' = [ilast EXCEPT !.at = IF f.killed THEN "killed" ELSE "done",
                              !.finish = f.ran, !.out = @ \o f.out]
    /\ UNCHANGED <<on_start_, on_finish_, was_set, NotInvoker>>

(* new Invoker, line 128: the class has no constructor and the members no  *)
(* initializer.                                                            *)
InitInvoker ==
  /\ on_start_ \in Garbage
  /\ on_finish_ \in Garbage
  /\ was_set = {}
  /\ ilast = [op |-> "new", at |-> "done", start |-> None, finish |-> None, out |-> <<>>]
  /\ FirstFour /\ BuilderParked /\ ObserverParked /\ MediatorParked

NextInvoker ==
  \/ CallSetOnStart
  \/ CallSetOnFinish
  \/ DoSomethingImportantBegins
  \/ DoSomethingImportantStart
  \/ DoSomethingImportantWorks
  \/ DoSomethingImportantFinish

SpecInvoker == InitInvoker /\ [][NextInvoker]_vars

(* ---------------------------------------------------------------------- *)
(* Notions the properties are stated with                                 *)
(* ---------------------------------------------------------------------- *)

Kids(n) == IF IsComposite(n) THEN Range(children[n]) ELSE {}

RECURSIVE Closure(_)
Closure(S) ==
  LET T == S \cup UNION {Kids(m) : m \in S}
  IN IF T = S THEN S ELSE Closure(T)

(* The nodes contained in n, directly or transitively. *)
Descendants(n) == Closure(Kids(n))

Acyclic == \A n \in objs : n \notin Descendants(n)

AcyclicUnder(n) == \A m \in {n} \cup Descendants(n) : m \notin Descendants(m)

RECURSIVE SumLen(_)
SumLen(S) ==
  IF S = {} THEN 0
  ELSE LET c == CHOOSE m \in S : TRUE
       IN (IF IsComposite(c) THEN Len(children[c]) ELSE 0) + SumLen(S \ {c})

(* The number of child entries held by n and by the nodes contained in n. *)
EntriesUnder(n) == SumLen({n} \cup Descendants(n))

(* No node occupies more than one child entry under n. *)
TreeUnder(n) == EntriesUnder(n) = Cardinality(Descendants(n))

Occurrences(s, v) == Cardinality({i \in 1..Len(s) : s[i] = v})

Distinct(s) == \A i, j \in 1..Len(s) : s[i] = s[j] => i = j

(* s without its first entry equal to v. *)
RECURSIVE RemoveFirst(_, _)
RemoveFirst(s, v) ==
  IF s = <<>> THEN <<>>
  ELSE IF Head(s) = v THEN Tail(s)
  ELSE <<Head(s)>> \o RemoveFirst(Tail(s), v)

Describe(n) == Operation(children, n, MaxDepth)

(* The descriptions of the entries i..Len(s) of s, joined by "+". *)
RECURSIVE Joined(_, _)
Joined(s, i) ==
  IF i > Len(s) THEN ""
  ELSE IF i = Len(s) THEN Text(Describe(s[i]).out)
  ELSE Text(Describe(s[i]).out) \o "+" \o Joined(s, i + 1)

IsAdd(l) == l.op = "Add" /\ IsComposite(l.self)
IsRemove(l) == l.op = "Remove" /\ IsComposite(l.self)

(* ---------------------------------------------------------------------- *)
(* Properties                                                             *)
(* ---------------------------------------------------------------------- *)

(* C1: containment and back-reference agree: a node has parent p (not     *)
(* none) exactly when it is an entry of p's children sequence.            *)
C1_ParentAgreesWithContainment ==
  \A n \in objs :
    /\ parent[n] # None =>
         /\ parent[n] \in Composites
         /\ n \in Range(children[parent[n]])
    /\ \A p \in Composites : n \in Range(children[p]) => parent[n] = p

(* C2: after add(child) on a Composite c, child is the last entry of c's  *)
(* children, the earlier entries are the old sequence unchanged, and       *)
(* child's parent is c.                                                   *)
C2_AddAppendsAndSetsParent ==
  [][IsAdd(last') =>
       LET c == last'.self
           x == last'.arg
           k == Len(children[c])
       IN /\ Len(children'[c]) = k + 1
          /\ children'[c][k + 1] = x
          /\ SubSeq(children'[c], 1, k) = children[c]
          /\ parent'[x] = c]_vars

C2_Witness ==
  /\ IsAdd(last)
  /\ Len(last.was) >= 1
  /\ children[last.self] = last.was \o <<last.arg>>
  /\ GetParent(last.arg) = last.self

(* C3: after remove(child) on a Composite c that contains child, child's  *)
(* parent is none and child no longer occurs in c's children.             *)
C3_RemoveDetaches ==
  [][(IsRemove(last') /\ last'.arg \in Range(children[last'.self])) =>
       /\ parent'[last'.arg] = None
       /\ last'.arg \notin Range(children'[last'.self])]_vars

C3_Witness ==
  /\ IsRemove(last)
  /\ last.arg \in Range(last.was)
  /\ last.arg \notin Range(children[last.self])
  /\ GetParent(last.arg) = None

(* C4 as stated: remove(child) removes exactly one entry, the first one   *)
(* identical to child, whenever child is present.                         *)
C4_RemovesExactlyOne ==
  [][(IsRemove(last') /\ last'.arg \in Range(children[last'.self])) =>
       /\ Len(children'[last'.self]) = Len(children[last'.self]) - 1
       /\ children'[last'.self] = RemoveFirst(children[last'.self], last'.arg)]_vars

(* C4 amended: remove(child) removes every entry identical to child, which *)
(* is exactly one entry (the first) when child occurs once, and leaves     *)
(* every other entry in place and in order.                                *)
C4_RemovesEveryOccurrence ==
  [][IsRemove(last') =>
       LET c == last'.self
           x == last'.arg
       IN /\ children'[c] = SelectSeq(children[c], LAMBDA e : e # x)
          /\ Len(children'[c]) = Len(children[c]) - Occurrences(children[c], x)
          /\ Occurrences(children[c], x) = 1 =>
               children'[c] = RemoveFirst(children[c], x)]_vars

C4_Witness ==
  /\ IsRemove(last)
  /\ Occurrences(last.was, last.arg) = 2
  /\ Len(last.was) = 3
  /\ Len(children[last.self]) = 1

(* C5: a Composite whose children c1..cn (n >= 1) are distinct nodes       *)
(* describes itself as "Branch(" c1.describe() "+" ... "+" cn.describe()   *)
(* ")", the children in insertion order.                                   *)
C5_DescribeJoinsChildren ==
  \A c \in objs \cap Composites :
    (Len(children[c]) >= 1 /\ Distinct(children[c]) /\ Describe(c).ok) =>
      Text(Describe(c).out) = "Branch(" \o Joined(children[c], 1) \o ")"

C5_Witness ==
  /\ last.op = "Operation"
  /\ IsComposite(last.self)
  /\ Len(children[last.self]) >= 2
  /\ Distinct(children[last.self])
  /\ \E x \in Range(children[last.self]) : IsComposite(x) /\ children[x] # <<>>
  /\ last.ret.ok
  /\ last.ret = Describe(last.self)

(* C6: for root -> [branchA -> [leaf1, leaf2], branchB -> [leaf3]] built   *)
(* with add in that order, describe() on root returns                      *)
(* "Branch(Branch(Leaf+Leaf)+Branch(Leaf))".                               *)
C6_NestedDescribe ==
  (pc = 15 /\ last.op = "Operation") =>
    /\ last.self = "tree"
    /\ last.ret.ok
    /\ Text(last.ret.out) = "Branch(Branch(Leaf+Leaf)+Branch(Leaf))"

C6_Witness ==
  /\ pc = 15
  /\ last.op = "Operation"
  /\ children["tree"] = <<"branch1", "branch2">>
  /\ children["branch1"] = <<"leaf_1", "leaf_2">>
  /\ children["branch2"] = <<"leaf_3">>
  /\ Text(last.ret.out) = "Branch(Branch(Leaf+Leaf)+Branch(Leaf))"

(* C7 as stated: after any sequence of add and remove calls no node is     *)
(* contained, directly or transitively, in its own children.               *)
C7_NoCycles == Acyclic

(* C7 amended: add does not reject a call that closes a cycle; as long as  *)
(* no add(c, x) is made with x = c or with c contained in x, no node comes *)
(* to be contained in its own children.                                    *)
C7_NoCyclesUnlessAddedIntoItself ==
  [][(/\ Acyclic
      /\ IsAdd(last') =>
           /\ last'.arg # last'.self
           /\ last'.self \notin Descendants(last'.arg))
     => Acyclic']_vars

C7_Witness ==
  /\ IsAdd(last)
  /\ IsComposite(last.arg)
  /\ last.arg # last.self
  /\ children[last.arg] # <<>>
  /\ last.arg \in Range(children[last.self])
  /\ Acyclic

(* C8 as stated: under an acyclic structure describe() terminates and      *)
(* performs at most as many describe invocations as there are child        *)
(* entries in the subtree.                                                 *)
C8_DescribeBoundedByEntries ==
  \A n \in objs :
    AcyclicUnder(n) =>
      /\ Describe(n).ok
      /\ Describe(n).calls - 1 <= EntriesUnder(n)

(* C8 amended: under an acyclic structure describe() terminates; it visits *)
(* every child entry at least once, and exactly once when no node under it *)
(* occupies more than one child entry (a node entered twice is described   *)
(* twice, with everything it contains).                                    *)
C8_DescribeTerminates ==
  \A n \in objs :
    AcyclicUnder(n) =>
      /\ Describe(n).ok
      /\ Describe(n).calls - 1 >= EntriesUnder(n)
      /\ TreeUnder(n) => Describe(n).calls - 1 = EntriesUnder(n)

C8_Witness ==
  /\ last.op = "Operation"
  /\ AcyclicUnder(last.self)
  /\ ~TreeUnder(last.self)
  /\ last.ret = Describe(last.self)
  /\ last.ret.ok
  /\ last.ret.calls - 1 > EntriesUnder(last.self)

(* C9: add(x) and remove(x) on a Leaf are silent no-ops: the call returns, *)
(* and no children sequence and no parent reference changes.               *)
C9_LeafAddRemoveNoOp ==
  [][(last'.op \in {"Add", "Remove"} /\ last'.self \in Leaves) =>
       /\ children' = children
       /\ parent' = parent
       /\ objs' = objs
       /\ last'.ret = NoRet]_vars

C9_Witness ==
  /\ last.op \in {"Add", "Remove"}
  /\ last.self \in Leaves
  /\ IsComposite(last.arg)
  /\ GetParent(last.arg) # last.self
  /\ children[last.arg] # <<>>

(* C10: remove(x) on a Composite c whose children do not contain x raises  *)
(* no error and leaves c's children sequence identical.                    *)
C10_RemoveAbsentKeepsChildren ==
  [][(IsRemove(last') /\ last'.arg \notin Range(children[last'.self])) =>
       /\ children'[last'.self] = children[last'.self]
       /\ last'.ret = NoRet]_vars

C10_Witness ==
  /\ IsRemove(last)
  /\ last.arg \notin Range(last.was)
  /\ Len(last.was) >= 2
  /\ children[last.self] = last.was

(* C11 as stated: remove(x) on a Composite c whose children do not contain *)
(* x leaves x's parent reference as it was.                                *)
C11_RemoveAbsentKeepsParent ==
  [][(IsRemove(last') /\ last'.arg \notin Range(children[last'.self])) =>
       parent'[last'.arg] = parent[last'.arg]]_vars

(* C12: isComposite() is true for every Composite, also one with no        *)
(* children, and false for every Leaf, in every reachable state.           *)
C12_IsCompositeFixed ==
  \A n \in objs :
    /\ n \in Composites => IsComposite(n)
    /\ n \in Leaves => ~IsComposite(n)

C12_Witness ==
  /\ last.op = "Remove"
  /\ children["branch1"] = <<>>
  /\ "branch1" \in Range(children["tree"])
  /\ "leaf_1" \in Range(children["tree"])
  /\ IsComposite("branch1")
  /\ ~IsComposite("leaf_1")

(* C13: describe() on a Leaf returns "Leaf" on every call, whatever calls  *)
(* were made before.                                                       *)
C13_LeafDescribeFixed ==
  /\ \A n \in objs \cap Leaves :
       Describe(n).ok /\ Text(Describe(n).out) = "Leaf"
  /\ (last.op = "Operation" /\ last.self \in Leaves) =>
       last.ret.ok /\ Text(last.ret.out) = "Leaf"

C13_Witness ==
  /\ last.op = "Operation"
  /\ last.self \in Leaves
  /\ GetParent(last.self) \in Composites
  /\ Occurrences(children[GetParent(last.self)], last.self) = 2
  /\ Text(last.ret.out) = "Leaf"

(* C14: setParent(p) on a node n changes n's parent reference to p and     *)
(* nothing else: no children sequence and no other parent reference.       *)
C14_SetParentOnlySetsParent ==
  [][last'.op = "SetParent" =>
       /\ children' = children
       /\ objs' = objs
       /\ parent'[last'.self] = last'.arg
       /\ \A m \in Names \ {last'.self} : parent'[m] = parent[m]
       /\ last'.ret = NoRet]_vars

C14_Witness ==
  /\ last.op = "SetParent"
  /\ last.arg \in Composites
  /\ GetParent(last.self) = last.arg
  /\ last.self \notin Range(children[last.arg])
  /\ \E c \in Composites : last.self \in Range(children[c])

(* C15 as stated: getParent() on a node that has just been created returns *)
(* none.                                                                   *)
C15_FreshParentIsNone == last.op = "new" => GetParent(last.self) = None

(* C16: describe() leaves every children sequence and parent reference as  *)
(* it was, and called twice in a row on a node gives the same result.      *)
C16_DescribeIsPureRead ==
  [][(last'.op = "Operation" /\ pc = 0) =>
       /\ children' = children
       /\ parent' = parent
       /\ objs' = objs
       /\ (last.op = "Operation" /\ last.self = last'.self) => last'.ret = last.ret
       /\ last'.ret = Describe(last'.self)]_vars

C16_Witness ==
  /\ pc = 0
  /\ last.op = "Operation"
  /\ IsComposite(last.self)
  /\ Len(children[last.self]) = 2
  /\ \E x \in Range(children[last.self]) : IsComposite(x) /\ children[x] # <<>>
  /\ last.ret.ok
  /\ GetParent(last.self) = None

(* C17 as stated: destroying a Composite destroys every node that is in    *)
(* its children sequence.                                                  *)
C17_CompositeDestroysChildren ==
  [][(last'.op = "delete" /\ IsComposite(last'.self)) =>
       \A x \in Range(children[last'.self]) : x \notin objs']_vars

(* C17 amended: a Composite does not own its children. Destroying it       *)
(* destroys that node alone; main destroys every node itself, and every    *)
(* node is destroyed exactly once.                                         *)
C17_ClientDestroysEveryNode ==
  /\ \A n \in Names : dtor[n] <= 1 /\ (dtor[n] = 1 => n \notin objs)
  /\ (last.op = "delete" /\ last.self = "tree") =>
       {"branch1", "branch2"} \subseteq objs
  /\ pc = Len(Main) + 1 => (objs = {} /\ \A n \in Names : dtor[n] = 1)

C17_Witness ==
  /\ last.op = "delete"
  /\ last.self = "tree"
  /\ last.was = <<"branch1", "branch2", "simple">>
  /\ dtor["tree"] = 1
  /\ dtor["branch1"] = 0
  /\ "branch1" \in objs

(* C18 as stated: under every interleaving of ThreadFoo and ThreadBar at   *)
(* most one Singleton object is created, both threads obtain the same      *)
(* object and print the same value.                                        *)
C18_OneInstance ==
  /\ Len(heap) <= 1
  /\ \A t, u \in Threads :
       (thr[t].pc \in {"print", "done"} /\ thr[u].pc \in {"print", "done"}) =>
         thr[t].ret = thr[u].ret
  /\ \A t, u \in Threads :
       (At(t, "done") /\ At(u, "done")) => thr[t].out = thr[u].out

(* The handlers from h on in next-order, up to the end of the chain or to  *)
(* the first handler met again.                                            *)
RECURSIVE Along(_, _)
Along(h, met) ==
  IF h = None \/ h \in met THEN <<>>
  ELSE <<h>> \o Along(next_handler_[h], met \cup {h})

ChainFrom(h) == Along(h, {})

Recognisers(h, r) == {i \in 1..Len(ChainFrom(h)) : Food(ChainFrom(h)[i]) = r}

(* C19: Handle(request) started at h returns the response of the first     *)
(* handler at or after h that recognises the request, and the empty string *)
(* when none up to the end of the chain does; only the handlers from h to  *)
(* the one that answers are consulted.                                     *)
C19_FirstRecogniserAnswers ==
  hlast.op = "Handle" =>
    LET c == ChainFrom(hlast.self)
        R == Recognisers(hlast.self, hlast.arg)
    IN IF R # {}
       THEN LET i == CHOOSE k \in R : \A j \in R : k <= j
            IN /\ hlast.ret.ok
               /\ hlast.ret.out = Response(c[i], hlast.arg)
               /\ hlast.ret.seen = SubSeq(c, 1, i)
       ELSE next_handler_[c[Len(c)]] = None =>
              /\ hlast.ret.ok
              /\ hlast.ret.out = ""
              /\ hlast.ret.seen = c

C19_Witness ==
  /\ next_handler_ = [h \in Handlers |->
                        CASE h = "monkey" -> "squirrel"
                          [] h = "squirrel" -> "dog"
                          [] h = "dog" -> None]
  /\ hlast.op = "Handle"
  /\ hlast.self = "squirrel"
  /\ hlast.arg = "Banana"
  /\ hlast.ret.out = ""
  /\ hlast.ret.seen = <<"squirrel", "dog">>

StoredKeys == {flyweights_[i].key : i \in 1..Len(flyweights_)}

(* C20: the factory holds exactly one flyweight per key ever requested or  *)
(* pre-populated; a GetFlyweight call with a key it already holds leaves   *)
(* the number of flyweights unchanged, one with a new key adds exactly one.*)
C20_OneFlyweightPerKey ==
  /\ StoredKeys = asked
  /\ \A k \in asked :
       Cardinality({i \in 1..Len(flyweights_) : flyweights_[i].key = k}) = 1
  /\ flast.op = "GetFlyweight" =>
       Len(flyweights_) = flast.size + (IF flast.key \in flast.had THEN 0 ELSE 1)

C20_Witness ==
  /\ flast.op = "GetFlyweight"
  /\ flast.key = "BMW_M5_red"
  /\ flast.key \in flast.had
  /\ "BMW_X1_red" \in asked
  /\ Len(flyweights_) = flast.size
  /\ Len(flyweights_) >= 3

(* C21: GetProduct returns the product holding exactly the parts produced  *)
(* since construction or the previous GetProduct, in production order, and *)
(* leaves the builder with a new empty product; a product that was         *)
(* returned keeps the parts it was returned with whatever is produced      *)
(* afterwards.                                                             *)
C21_GetProductHandsOver ==
  /\ blast.op = "GetProduct" =>
       /\ given[Len(given)].id = blast.ret
       /\ parts_[blast.ret] = given[Len(given)].parts
       /\ product # blast.ret
       /\ parts_[product] = <<>>
  /\ \A i \in 1..Len(given) :
       /\ given[i].id # product
       /\ given[i].id \notin freed => parts_[given[i].id] = given[i].parts
       /\ \A j \in 1..Len(given) : given[i].id = given[j].id => i = j
  /\ parts_[product] = made

C21_Witness ==
  /\ Len(given) = 2
  /\ given[1].parts = <<"PartA1">>
  /\ given[2].parts = <<"PartB1">>
  /\ freed = {}
  /\ parts_[product] = <<"PartC1">>

(* C22: CreateMessage(m), and any Notify, calls Update with the subject's  *)
(* current message on every observer attached at that moment, in the order *)
(* of attachment, and on no observer that has been detached; afterwards    *)
(* every attached observer's stored message is the subject's message.      *)
C22_NotifyReachesAttached ==
  olast.op \in {"CreateMessage", "Notify", "SomeBusinessLogic"} =>
    /\ olast.op = "CreateMessage" => message_ = olast.arg
    /\ olast.updates = [i \in 1..Len(roll) |-> <<roll[i], message_>>]
    /\ \A o \in Range(roll) : message_from_subject_[o] = message_
    /\ \A i \in 1..Len(olast.updates) : olast.updates[i][1] \in Range(roll)

C22_Witness ==
  /\ olast.op = "CreateMessage"
  /\ olast.arg = "The weather is hot today! :p"
  /\ roll = <<"observer1", "observer2">>
  /\ made_observers = Observers
  /\ message_from_subject_["observer3"] = "Hello World! :D"
  /\ message_from_subject_["observer1"] = "The weather is hot today! :p"
  /\ Len(olast.updates) = 2

(* C23: with a single thread, the first GetInstance call fixes the value:  *)
(* every later call, whatever its argument, constructs no object and       *)
(* returns the instance whose value() is the argument of the first call.   *)
C23_FirstCallFixesValue ==
  /\ calls # <<>> => Len(heap) = 1
  /\ \A i \in 1..Len(calls) :
       /\ calls[i].ret = calls[1].ret
       /\ calls[i].ret = singleton_
       /\ calls[i].value = calls[1].arg

C23_Witness ==
  /\ Len(calls) = 3
  /\ calls[1].arg = "FOO"
  /\ calls[2].arg = "BAR"
  /\ calls[3].value = "FOO"
  /\ heap = <<"FOO">>

(* What the claim says an operation triggered by the client causes. *)
Cascade(op) ==
  CASE op = "DoA" -> <<"DoA", "Notify(A)", "DoC", "Notify(C)">>
    [] op = "DoB" -> <<"DoB", "Notify(B)">>
    [] op = "DoC" -> <<"DoC", "Notify(C)">>
    [] op = "DoD" -> <<"DoD", "Notify(D)", "DoB", "Notify(B)", "DoC", "Notify(C)">>

IsPrefix(s, u) == Len(s) <= Len(u) /\ s = SubSeq(u, 1, Len(s))

(* C24: an operation the client triggers on the mediated components        *)
(* terminates, and what it causes is fixed: DoA causes Notify(A), DoC,     *)
(* Notify(C); DoD causes Notify(D), DoB, Notify(B), DoC, Notify(C); the    *)
(* events B and C trigger no operation.                                    *)
C24_FixedCascade ==
  /\ [](mlast.mediated =>
          /\ IsPrefix(trace, Cascade(mlast.op))
          /\ stack = <<>> => trace = Cascade(mlast.op))
  /\ (mlast.mediated /\ stack # <<>>) ~> (stack = <<>>)

C24_Witness ==
  /\ mlast.op = "DoD"
  /\ mlast.mediated
  /\ stack = <<>>
  /\ Len(trace) = Len(Cascade("DoD"))

(* C25 as stated: for every assignment of next pointers that SetNext calls *)
(* can set up, Handle(request) terminates for every request, with some     *)
(* handler's response or the empty string.                                 *)
C25_HandleTerminates ==
  hlast.op = "Handle" =>
    /\ hlast.ret.ok
    /\ hlast.ret.out \in {""} \cup {Response(h, hlast.arg) : h \in Handlers}

(* C26 as stated: DoSomethingImportant executes a start (finish) command   *)
(* only if one was set with SetOnStart (SetOnFinish); on an Invoker on     *)
(* which the setter was never called the slot is empty and nothing is      *)
(* executed for it.                                                        *)
C26_ExecutesOnlyWhatWasSet ==
  /\ "start" \notin was_set => on_start_ = None
  /\ "finish" \notin was_set => on_finish_ = None
  /\ ilast.op = "DoSomethingImportant" =>
       /\ ilast.start # None => "start" \in was_set
       /\ ilast.finish # None => "finish" \in was_set

(* C27 as stated: for every children sequence built with add, the same     *)
(* node added more than once included, the description of a Composite has  *)
(* one "+" between each two adjacent child descriptions and none after the *)
(* last: one less than there are child entries.                            *)
C27_SeparatorBetweenAllEntries ==
  \A c \in objs \cap Composites :
    (Len(children[c]) >= 1 /\ Describe(c).ok) =>
      Text(Describe(c).out) = "Branch(" \o Joined(children[c], 1) \o ")"
====
